---- MODULE Spec2Model ----
(***************************************************************************)
(* A model of the trie of src/src/lib.rs: TrieBuilder, Trie and Node, with *)
(* push, build_index, search and common_prefix_search.                     *)
(*                                                                         *)
(* A Node is the record [is_leaf, subwords, children]; children is a       *)
(* function whose domain is the set of labels that have a child (the       *)
(* HashMap of the source).  A Trie is the record [has_search_index, root]. *)
(* The iteration order of a HashMap is unspecified, so build_index is a    *)
(* set of outcomes, one per choice of an order at every node.              *)
(***************************************************************************)
EXTENDS Naturals, Sequences, FiniteSets, TLC

\* ---------------------------------------------------------------- bounds
MaxLen == 2
MaxItems == 2

\* The alphabet: two labels, enough for a node to have two children and so for
\* the iteration order of a children map to matter.
Labels == {"a", "b"}

RECURSIVE SeqsUpTo(_)
SeqsUpTo(n) ==
    IF n = 0 THEN {<<>>}
    ELSE LET shorter == SeqsUpTo(n - 1)
         IN shorter \cup {Append(s, l) : s \in {t \in shorter : Len(t) = n - 1}, l \in Labels}

\* The sequences pushed and queried.
Elements == SeqsUpTo(MaxLen)

\* ------------------------------------------------------------ data model
DefaultNode == [is_leaf |-> FALSE, subwords |-> <<>>, children |-> <<>>]

DefaultTrie == [has_search_index |-> FALSE, root |-> DefaultNode]

IndexNotBuilt == "IndexNotBuilt"
NoResultFound == "NoResultFound"

Ok(words) == [tag |-> "Ok", err |-> "", words |-> words]
Err(e) == [tag |-> "Err", err |-> e, words |-> <<>>]
Unit == [tag |-> "Unit", err |-> "", words |-> <<>>]

VARIABLES
    stage,               \* "builder": the trie is inside a TrieBuilder; "trie": it is a Trie
    build_search_index,  \* TrieBuilder.build_search_index
    trie,                \* the Trie: [has_search_index, root]
    pushed,              \* history: the set of sequences pushed so far
    indexed,             \* history: the sequences pushed before the last build_index
    last                 \* the last call: [op, arg, res, again]

vars == <<stage, build_search_index, trie, pushed, indexed, last>>

\* The value of indexed while build_index has never run.
NeverBuilt == {<<"never">>}

\* ------------------------------------------------------------------ push
\* Mutant: insert, which replaces a child that exists by a fresh node.
EntryOrInsert_Replace(children, label) == DefaultNode

\* node.children.entry(label).or_insert_with(Node::default)
EntryOrInsert(children, label) ==
    IF label \in DOMAIN children THEN children[label] ELSE DefaultNode

\* Mutant: the final node is never marked.
MarkLeaf_Skip(node) == node

\* Mutant: the flag is flipped instead of set.
MarkLeaf_Toggle(node) == [node EXCEPT !.is_leaf = ~node.is_leaf]

\* node.is_leaf = true
MarkLeaf(node) == [node EXCEPT !.is_leaf = TRUE]

RECURSIVE PushFrom(_, _)
PushFrom(node, element) ==
    IF element = <<>> THEN MarkLeaf(node)
    ELSE LET label == Head(element)
             child == PushFrom(EntryOrInsert(node.children, label), Tail(element))
         IN [node EXCEPT !.children = (label :> child) @@ node.children]

\* Mutant: a push drops the index flag.
push_Invalidate(t, element) ==
    [t EXCEPT !.root = PushFrom(t.root, element), !.has_search_index = FALSE]

push(t, element) == [t EXCEPT !.root = PushFrom(t.root, element)]

\* ----------------------------------------------------------- build_index
\* The orders in which a HashMap with key set S may be iterated.
Orders(S) ==
    {o \in [1..Cardinality(S) -> S] : \A i, j \in 1..Cardinality(S) : o[i] = o[j] => i = j}

RECURSIVE _build_index(_, _, _)
RECURSIVE ChildLoop(_, _, _, _)

\* Mutant: current_words.extend(new_words) is missing.
ChildLoop_NoExtend(order, children, current_words, prefix) ==
    IF order = <<>> THEN {[children |-> children, words |-> current_words]}
    ELSE LET label == Head(order)
         IN UNION {ChildLoop(Tail(order),
                             [children EXCEPT ![label] = c.node],
                             current_words,
                             prefix)
                   : c \in _build_index(children[label], <<>>, Append(prefix, label))}

\* The for loop of _build_index over the children still to visit (order), with the
\* children map and current_words as they stand: the set of [children, words] it
\* can end with.
ChildLoop(order, children, current_words, prefix) ==
    IF order = <<>> THEN {[children |-> children, words |-> current_words]}
    ELSE LET label == Head(order)
         IN UNION {ChildLoop(Tail(order),
                             [children EXCEPT ![label] = c.node],
                             current_words \o c.words,
                             prefix)
                   : c \in _build_index(children[label], <<>>, Append(prefix, label))}

\* Mutant: the node's own entry is pushed after the loop over the children.
_build_index_LeafLast(node, current_words, prefix) ==
    LET ends == UNION {ChildLoop(o, node.children, current_words, prefix)
                       : o \in Orders(DOMAIN node.children)}
        own(words) == IF node.is_leaf THEN Append(words, prefix) ELSE words
    IN {[node |-> [node EXCEPT !.children = r.children, !.subwords = own(r.words)],
         words |-> own(r.words)] : r \in ends}

\* The set of [node, words]: the node after the call and current_words after it.
_build_index(node, current_words, prefix) ==
    LET words0 == IF node.is_leaf THEN Append(current_words, prefix) ELSE current_words
        ends == UNION {ChildLoop(o, node.children, words0, prefix)
                       : o \in Orders(DOMAIN node.children)}
    IN {[node |-> [node EXCEPT !.children = r.children, !.subwords = r.words],
         words |-> r.words] : r \in ends}

\* Mutant: has_search_index is not set.
build_index_NoFlag(t) ==
    {[t EXCEPT !.root = r.node] : r \in _build_index(t.root, <<>>, <<>>)}

\* The tries build_index can leave.
build_index(t) ==
    {[has_search_index |-> TRUE, root |-> r.node] : r \in _build_index(t.root, <<>>, <<>>)}

\* ---------------------------------------------------------------- search
RECURSIVE SearchFrom(_, _)
\* Mutant: an empty list of completions is reported as NoResultFound.
SearchFrom_EmptyIsError(node, element) ==
    IF element = <<>>
    THEN IF node.subwords = <<>> THEN Err(NoResultFound) ELSE Ok(node.subwords)
    ELSE IF Head(element) \in DOMAIN node.children
         THEN SearchFrom(node.children[Head(element)], Tail(element))
         ELSE Err(NoResultFound)

SearchFrom(node, element) ==
    IF element = <<>> THEN Ok(node.subwords)
    ELSE IF Head(element) \in DOMAIN node.children
         THEN SearchFrom(node.children[Head(element)], Tail(element))
         ELSE Err(NoResultFound)

search(t, element) ==
    IF ~t.has_search_index THEN Err(IndexNotBuilt) ELSE SearchFrom(t.root, element)

\* -------------------------------------------------- common_prefix_search
RECURSIVE CommonPrefixLoop(_, _, _, _)
\* Mutant: a missing child returns an empty list, not the items collected so far.
CommonPrefixLoop_DropOnMiss(node, element, results, prefix) ==
    IF element = <<>> THEN results
    ELSE LET label == Head(element)
             prefix1 == Append(prefix, label)
         IN IF label \in DOMAIN node.children
            THEN LET child == node.children[label]
                 IN CommonPrefixLoop(child, Tail(element),
                                     IF child.is_leaf THEN Append(results, prefix1) ELSE results,
                                     prefix1)
            ELSE <<>>

CommonPrefixLoop(node, element, results, prefix) ==
    IF element = <<>> THEN results
    ELSE LET label == Head(element)
             prefix1 == Append(prefix, label)
         IN IF label \in DOMAIN node.children
            THEN LET child == node.children[label]
                 IN CommonPrefixLoop(child, Tail(element),
                                     IF child.is_leaf THEN Append(results, prefix1) ELSE results,
                                     prefix1)
            ELSE results

common_prefix_search(t, element) == CommonPrefixLoop(t.root, element, <<>>, <<>>)

\* --------------------------------------------------------------- actions
\* A call and what it returned; again: it is a push of the sequence the call
\* before it pushed.
Call(op, arg, res, again) == [op |-> op, arg |-> arg, res |-> res, again |-> again]

Init ==
    /\ stage \in {"builder", "trie"}
    /\ build_search_index \in (IF stage = "builder" THEN BOOLEAN ELSE {FALSE})
    /\ trie = DefaultTrie
    /\ pushed = {}
    /\ indexed = NeverBuilt
    /\ last = Call("new", <<>>, Unit, FALSE)

CanPush(element) == Cardinality(pushed \cup {element}) <= MaxItems

\* TrieBuilder::push
BuilderPush(element) ==
    /\ stage = "builder"
    /\ CanPush(element)
    /\ trie' = push(trie, element)
    /\ pushed' = pushed \cup {element}
    /\ last' = Call("push", element, Unit, last.op = "push" /\ last.arg = element)
    /\ UNCHANGED <<stage, build_search_index, indexed>>

\* TrieBuilder::build
Build ==
    /\ stage = "builder"
    /\ stage' = "trie"
    /\ IF build_search_index
       THEN /\ trie' \in build_index(trie)
            /\ indexed' = pushed
       ELSE UNCHANGED <<trie, indexed>>
    /\ last' = Call("build", <<>>, Unit, FALSE)
    /\ UNCHANGED <<build_search_index, pushed>>

\* Trie::push
TriePush(element) ==
    /\ stage = "trie"
    /\ CanPush(element)
    /\ trie' = push(trie, element)
    /\ pushed' = pushed \cup {element}
    /\ last' = Call("push", element, Unit, last.op = "push" /\ last.arg = element)
    /\ UNCHANGED <<stage, build_search_index, indexed>>

\* Trie::build_index
BuildIndex ==
    /\ stage = "trie"
    /\ trie' \in build_index(trie)
    /\ indexed' = pushed
    /\ last' = Call("build_index", <<>>, Unit, FALSE)
    /\ UNCHANGED <<stage, build_search_index, pushed>>

\* Trie::search
Search(element) ==
    /\ stage = "trie"
    /\ last' = Call("search", element, search(trie, element), FALSE)
    /\ UNCHANGED <<stage, build_search_index, trie, pushed, indexed>>

\* Trie::common_prefix_search
CommonPrefixSearch(element) ==
    /\ stage = "trie"
    /\ last' = Call("common_prefix_search", element, Ok(common_prefix_search(trie, element)), FALSE)
    /\ UNCHANGED <<stage, build_search_index, trie, pushed, indexed>>

Next ==
    \/ \E element \in Elements : BuilderPush(element)
    \/ Build
    \/ \E element \in Elements : TriePush(element)
    \/ BuildIndex
    \/ \E element \in Elements : Search(element)
    \/ \E element \in Elements : CommonPrefixSearch(element)

Spec == Init /\ [][Next]_vars

\* ------------------------------------------------- vocabulary of the claims
IsPrefix(p, s) == Len(p) <= Len(s) /\ SubSeq(s, 1, Len(p)) = p

Range(w) == {w[i] : i \in 1..Len(w)}

NoDuplicate(w) == \A i, j \in 1..Len(w) : w[i] = w[j] => i = j

StrictlyLonger(w) == \A i, j \in 1..Len(w) : i < j => Len(w[i]) < Len(w[j])

\* The prefixes of the pushed sequences, the empty one included in any case.
PushedPrefixes == {<<>>} \cup UNION {{SubSeq(s, 1, n) : n \in 0..Len(s)} : s \in pushed}

\* q is a prefix of a pushed sequence.
IsPushedPrefix(q) == \E s \in pushed : IsPrefix(q, s)

\* Every symbol of q has a matching child on the way from the root, which is
\* there whatever was pushed.
HasPath(q) == q = <<>> \/ IsPushedPrefix(q)

\* The index was built and nothing new was pushed since.
Fresh == trie.has_search_index /\ indexed = pushed

RECURSIVE NodePaths(_, _)
NodePaths(node, prefix) ==
    {prefix} \cup UNION {NodePaths(node.children[l], Append(prefix, l)) : l \in DOMAIN node.children}

RECURSIVE NodeCount(_)
RECURSIVE CountOver(_, _)
CountOver(node, labels) ==
    IF labels = {} THEN 0
    ELSE LET l == CHOOSE x \in labels : TRUE
         IN NodeCount(node.children[l]) + CountOver(node, labels \ {l})

NodeCount(node) == 1 + CountOver(node, DOMAIN node.children)

RECURSIVE NodeAt(_, _)
NodeAt(node, path) ==
    IF path = <<>> THEN node ELSE NodeAt(node.children[Head(path)], Tail(path))

\* ----------------------------------------------------------------- claims

\* C1: with the index built after the last push, search of a query that is a
\* prefix of a pushed sequence succeeds, and its list holds exactly the pushed
\* sequences that start with the query, each once.
C1_SearchReturnsCompletions ==
    (last.op = "search" /\ Fresh /\ IsPushedPrefix(last.arg)) =>
        /\ last.res.tag = "Ok"
        /\ Range(last.res.words) = {s \in pushed : IsPrefix(last.arg, s)}
        /\ NoDuplicate(last.res.words)

C1_Witness ==
    /\ last.op = "search" /\ Fresh
    /\ last.arg # <<>> /\ last.arg \in pushed
    /\ Len(last.res.words) >= 2

\* C2: common_prefix_search(Q) returns exactly the stored items that are a
\* prefix of Q, the empty sequence counting as a stored item once pushed.
C2_CommonPrefixComplete ==
    last.op = "common_prefix_search" =>
        Range(last.res.words) = {s \in pushed : IsPrefix(s, last.arg)}

\* C3: while build_index has never run search fails with IndexNotBuilt for
\* every query; once it has run search never fails with IndexNotBuilt again.
C3_IndexGating ==
    last.op = "search" =>
        /\ indexed = NeverBuilt => last.res = Err(IndexNotBuilt)
        /\ indexed # NeverBuilt => (last.res.tag = "Ok" \/ last.res = Err(NoResultFound))

C3_Witness ==
    /\ last.op = "search"
    /\ indexed # NeverBuilt /\ indexed # pushed
    /\ last.arg \in pushed \ indexed
    /\ last.res.tag = "Ok"

\* C4 as stated: with the index flag set, search fails with NoResultFound
\* exactly when the query is a prefix of no pushed sequence.
C4_NoResultIffNotPushedPrefix ==
    (last.op = "search" /\ trie.has_search_index) =>
        /\ last.res = Err(NoResultFound) <=> ~IsPushedPrefix(last.arg)
        /\ IsPushedPrefix(last.arg) => last.res = Ok(NodeAt(trie.root, last.arg).subwords)

\* C4 as amended: with the index flag set, search fails with NoResultFound
\* exactly when the query is not empty and is a prefix of no pushed sequence,
\* and otherwise returns the completions cached at the query's node, empty or
\* not; the empty query succeeds on a trie into which nothing was pushed.
C4_NoResultIffNoPath ==
    (last.op = "search" /\ trie.has_search_index) =>
        /\ last.res = Err(NoResultFound) <=> ~HasPath(last.arg)
        /\ HasPath(last.arg) => last.res = Ok(NodeAt(trie.root, last.arg).subwords)

C4_Witness ==
    /\ last.op = "search" /\ trie.has_search_index
    /\ last.arg # <<>>
    /\ last.res = Ok(<<>>)

\* C5 as stated: a sequence pushed after build_index is in the list search
\* returns for none of its prefixes, and all those searches succeed.
C5_LatePushMissing ==
    (last.op = "push" /\ trie.has_search_index) =>
        \A q \in Elements :
            IsPrefix(q, last.arg) =>
                /\ search(trie, q).tag = "Ok"
                /\ last.arg \notin Range(search(trie, q).words)

\* C5 as amended: a push changes neither has_search_index nor the completions
\* cached at any node that existed, and the nodes it creates have no
\* completions; so a sequence pushed after the last build_index and not
\* before it is in the list of none of its prefixes, whose searches all
\* succeed.
C5_PushStep ==
    \A q \in Elements :
        /\ trie'.has_search_index = trie.has_search_index
        /\ SearchFrom(trie.root, q).tag = "Ok" =>
               SearchFrom(trie'.root, q) = SearchFrom(trie.root, q)
        /\ (SearchFrom(trie.root, q).tag = "Err" /\ IsPrefix(q, last'.arg)) =>
               SearchFrom(trie'.root, q) = Ok(<<>>)

C5_LateItemsMissing ==
    trie.has_search_index =>
        \A s \in pushed \ indexed : \A q \in Elements :
            IsPrefix(q, s) =>
                /\ search(trie, q).tag = "Ok"
                /\ s \notin Range(search(trie, q).words)

C5_StaleAfterPush ==
    /\ [](C5_LateItemsMissing)
    /\ [][last'.op = "push" => C5_PushStep]_vars

C5_Witness ==
    /\ last.op = "search" /\ trie.has_search_index
    /\ last.arg \in pushed \ indexed
    /\ last.res.tag = "Ok" /\ last.res.words # <<>>

\* C6: a push of the sequence the call before it pushed leaves the trie as
\* it was, and no list a query returns holds an entry twice.
C6_NoDuplicates ==
    (last.op \in {"search", "common_prefix_search"}) => NoDuplicate(last.res.words)

C6_PushIdempotent ==
    /\ [](C6_NoDuplicates)
    /\ [][(last'.op = "push" /\ last'.again) => trie' = trie]_vars

C6_Witness ==
    /\ last.op = "push" /\ last.again
    /\ Cardinality(pushed) >= 2
    /\ trie.has_search_index

\* C7: common_prefix_search returns, shortest first, the stored non-empty
\* prefixes of the query met before the first symbol that has no child; none
\* when the query shares no path with the trie.
C7_CommonPrefixOrder ==
    last.op = "common_prefix_search" =>
        /\ last.res.tag = "Ok"
        /\ StrictlyLonger(last.res.words)
        /\ Range(last.res.words) = {s \in pushed : s # <<>> /\ IsPrefix(s, last.arg)}
        /\ (~\E s \in pushed : s # <<>> /\ last.arg # <<>> /\ s[1] = last.arg[1]) =>
               last.res.words = <<>>

C7_Witness ==
    /\ last.op = "common_prefix_search"
    /\ ~HasPath(last.arg)
    /\ last.res.words # <<>>

\* C8: with the index built after the last push, the list search returns for
\* a stored sequence starts with that sequence.
C8_OwnEntryFirst ==
    (last.op = "search" /\ Fresh /\ last.arg \in pushed) =>
        /\ last.res.tag = "Ok"
        /\ last.res.words # <<>>
        /\ Head(last.res.words) = last.arg

C8_Witness ==
    /\ last.op = "search" /\ Fresh /\ last.arg \in pushed
    /\ Len(last.res.words) >= 2
    /\ Head(last.res.words) = last.arg

\* C9: the nodes are the prefixes of the pushed sequences, one node each,
\* and a node is a leaf exactly when its path was pushed.
C9_PrefixSharing ==
    /\ NodePaths(trie.root, <<>>) = PushedPrefixes
    /\ NodeCount(trie.root) = Cardinality(PushedPrefixes)
    /\ \A p \in PushedPrefixes : NodeAt(trie.root, p).is_leaf <=> p \in pushed

C9_Witness ==
    /\ last.op = "push"
    /\ \E s, t \in pushed : s # t /\ Len(s) = MaxLen /\ Len(t) = MaxLen /\ s[1] = t[1]
    /\ NodeCount(trie.root) = 1 + MaxLen + 1

\* C10: with the index built after the last push, a search that succeeds
\* returns a list that is not empty, but for the empty query on a trie into
\* which nothing was pushed, which succeeds with the empty list.
C10_FreshResultNonEmpty ==
    (last.op = "search" /\ Fresh) =>
        /\ last.res.tag = "Ok" =>
               (last.res.words # <<>> \/ (last.arg = <<>> /\ pushed = {}))
        /\ (last.arg = <<>> /\ pushed = {}) => last.res = Ok(<<>>)

C10_Witness ==
    /\ last.op = "search" /\ Fresh
    /\ pushed = {}
    /\ last.res = Ok(<<>>)

====
